---- MODULE Spec2Model ----
(***************************************************************************)
(* Model of scripts/data_validation.py: a notebook calls the validate_*    *)
(* functions, in any order, on one pandas DataFrame; and of load_data      *)
(* (scripts/data_ingestion.py) and clean_missing_values                    *)
(* (scripts/data_cleaning.py), which scripts/test.py calls before them.    *)
(*                                                                         *)
(* A DataFrame is the pair (columns, data): the set of column names and    *)
(* the sequence of rows, each row a function from the column names to      *)
(* cells.  A plain cell is <<>> (NaN / None) or <<v>>.  A date cell and a  *)
(* time cell are records carrying their kind, so that parsing is modelled  *)
(* by what it does to each kind of cell.                                   *)
(***************************************************************************)
EXTENDS Integers, Sequences, FiniteSets, TLC

VARIABLES
    columns,    \* data.columns
    data,       \* the rows of the DataFrame the caller passes to every call
    now,        \* the last reading of the wall clock (pd.Timestamp.now())
    report      \* the call that returned last: [rule, raised, out]

vars == <<columns, data, now, report>>

----------------------------------------------------------------------------
(* Bounds of the model *)

MaxRows == 3
MaxRunRows == 2
MaxNow == 2
MaxMissing == 2

----------------------------------------------------------------------------
(* Cells *)

NA == <<>>
isnull(c) == c = NA
Cell(v) == <<v>>
Val(c) == c[1]

NoDate == [kind |-> "null", d |-> 0]
BadDateStr == [kind |-> "badstr", d |-> 0]
NaT == [kind |-> "nat", d |-> 0]
DateStr(n) == [kind |-> "str", d |-> n]
Timestamp(n) == [kind |-> "ts", d |-> n]
isnull_date(c) == c.kind \in {"null", "nat"}

NoTime == [kind |-> "null", t |-> 0]
BadTimeStr == [kind |-> "badstr", t |-> 0]
TimeStr(n) == [kind |-> "str", t |-> n]

----------------------------------------------------------------------------
(* Sequences *)

Range(s) == {s[i] : i \in 1..Len(s)}

RECURSIVE SortedSeq(_)
\* a finite set of integers as an ascending sequence
SortedSeq(S) ==
    IF S = {} THEN <<>>
    ELSE LET m == CHOOSE x \in S : \A y \in S : x <= y
         IN <<m>> \o SortedSeq(S \ {m})

\* the rows a boolean mask keeps, in row order; S is the set of their indices
Masked(S) == SortedSeq(S)

----------------------------------------------------------------------------
(* pandas operations the validators use *)

\* data.groupby(key): the group keys, sorted; rows whose key is NaN are dropped
\* (groupby's default dropna=True)
groupby_keys(d, key) ==
    SortedSeq({Val(d[i][key]) : i \in {j \in 1..Len(d) : ~isnull(d[j][key])}})

\* data.groupby(key)[dep]: the dep cells of the rows of group k, in row order
group(d, key, k, dep) ==
    LET idx == Masked({i \in 1..Len(d) : d[i][key] = Cell(k)})
    IN [j \in 1..Len(idx) |-> d[idx[j]][dep]]

\* Series.unique(): the distinct cells in order of first appearance, NaN among them
unique(s) ==
    LET idx == SortedSeq({i \in 1..Len(s) : \A j \in 1..(i - 1) : s[j] # s[i]})
    IN [j \in 1..Len(idx) |-> s[idx[j]]]

\* faulty variant: the size of the group where its number of distinct values is meant
nunique_size(s) == Len(s)

\* Series.nunique(): the number of distinct cells, NaN not counted (dropna=True)
nunique(s) == Cardinality(Range(s) \ {NA})

\* raise ValueError(...): the call returns no report
Raise(e) == [raised |-> e, out |-> <<>>]
Return(v) == [raised |-> "none", out |-> v]

----------------------------------------------------------------------------
(* validate_id, validate_delivery_person_id *)

\* f"ID {id_value} has multiple delivery_person_ids."
IdMessage(k) == [msg |-> "ID has multiple delivery_person_ids.", subject |-> Cell(k)]
\* f"Delivery Person ID {delivery_person_id} has multiple ids."
PersonMessage(k) == [msg |-> "Delivery Person ID has multiple ids.", subject |-> Cell(k)]

\* the keys the loop over data.groupby(key)[dep].nunique() reports: count > 1
multiple(d, key, dep) ==
    SelectSeq(groupby_keys(d, key), LAMBDA k : nunique(group(d, key, k, dep)) > 1)

id_discrepancies(d) ==
    LET keys == multiple(d, "id", "delivery_person_id")
    IN [i \in 1..Len(keys) |-> IdMessage(keys[i])]

\* faulty variant: the second pass reports under the first pass's message
person_discrepancies_same_message(d) ==
    LET keys == multiple(d, "delivery_person_id", "id")
    IN [i \in 1..Len(keys) |-> IdMessage(keys[i])]

person_discrepancies(d) ==
    LET keys == multiple(d, "delivery_person_id", "id")
    IN [i \in 1..Len(keys) |-> PersonMessage(keys[i])]

validate_id(cols, d) ==
    IF "id" \notin cols \/ "delivery_person_id" \notin cols
    THEN Raise("ValueError")
    ELSE Return(id_discrepancies(d) \o person_discrepancies(d))

Passed == [msg |-> "Validation passed: All IDs and delivery_person_ids are consistent.",
           subject |-> NA]
Failed == [msg |-> "Validation failed. Issues found:", subject |-> NA]

\* faulty variant: the ValueError is caught and a report is returned all the same
validate_delivery_person_id_swallow(cols, d) ==
    LET issues == validate_id(cols, d)
    IN IF issues.out = <<>> /\ issues.raised = "none" THEN Return(<<Passed>>)
       ELSE Return(<<Failed>> \o issues.out)

\* validate_id's ValueError propagates: nothing here catches it
validate_delivery_person_id(cols, d) ==
    LET issues == validate_id(cols, d)
    IN IF issues.raised # "none" THEN issues
       ELSE IF issues.out = <<>> THEN Return(<<Passed>>)
       ELSE Return(<<Failed>> \o issues.out)

----------------------------------------------------------------------------
(* validate_delivery_person_age *)

\* data.groupby('delivery_person_id')['delivery_person_age'].unique(), as the
\* (key, values) pairs .items() yields
unique_groups(d, key, dep) ==
    LET keys == groupby_keys(d, key)
    IN [i \in 1..Len(keys) |->
           [key |-> Cell(keys[i]), vals |-> unique(group(d, key, keys[i], dep))]]

\* faulty variant: a group is reported only from three distinct values on
age_discrepancies_gt2(d) ==
    SelectSeq(unique_groups(d, "delivery_person_id", "delivery_person_age"),
              LAMBDA g : Len(g.vals) > 2)

\* the dict of discrepancies, as its (key, value) entries in insertion order
age_discrepancies(d) ==
    SelectSeq(unique_groups(d, "delivery_person_id", "delivery_person_age"),
              LAMBDA g : Len(g.vals) > 1)

validate_delivery_person_age(cols, d) ==
    IF "delivery_person_id" \notin cols \/ "delivery_person_age" \notin cols
    THEN Raise("ValueError")
    ELSE Return(age_discrepancies(d))

----------------------------------------------------------------------------
(* validate_delivery_person_rating *)

\* faulty variant: every issue opens an entry of its own
setdefault_append_new_entry(dict, key, issue) ==
    Append(dict, [key |-> key, issues |-> <<issue>>])

\* dict.setdefault(key, []).append(issue) on a dict kept as its entries in
\* insertion order
setdefault_append(dict, key, issue) ==
    IF \E i \in 1..Len(dict) : dict[i].key = key
    THEN [i \in 1..Len(dict) |->
             IF dict[i].key = key
             THEN [dict[i] EXCEPT !.issues = Append(@, issue)]
             ELSE dict[i]]
    ELSE Append(dict, [key |-> key, issues |-> <<issue>>])

RECURSIVE append_all(_, _)
\* the loop that runs setdefault(...).append(...) over items, in order
append_all(dict, items) ==
    IF items = <<>> THEN dict
    ELSE append_all(setdefault_append(dict, Head(items).key, Head(items).issue),
                    Tail(items))

\* faulty variant: the bounds themselves are rejected
rating_out_of_range_exclusive(c) == ~isnull(c) /\ (Val(c) <= 1 \/ Val(c) >= 5)

\* (rating < 1) | (rating > 5); a comparison with NaN is False
rating_out_of_range(c) == ~isnull(c) /\ (Val(c) < 1 \/ Val(c) > 5)

\* the rows of invalid_ratings, as the (key, issue) the loop over them appends
invalid_ratings(d) ==
    LET idx == Masked({i \in 1..Len(d) :
                          rating_out_of_range(d[i]["delivery_person_rating"])})
    IN [j \in 1..Len(idx) |->
           [key |-> d[idx[j]]["delivery_person_id"],
            issue |-> [msg |-> "Invalid rating",
                       detail |-> <<d[idx[j]]["delivery_person_rating"]>>]]]

\* the groups with more than one unique rating, as the (key, issue) appended
inconsistent_ratings(d) ==
    LET bad == SelectSeq(unique_groups(d, "delivery_person_id", "delivery_person_rating"),
                         LAMBDA g : Len(g.vals) > 1)
    IN [j \in 1..Len(bad) |->
           [key |-> bad[j].key,
            issue |-> [msg |-> "Inconsistent ratings", detail |-> bad[j].vals]]]

\* the returned message: its first line and one line per entry of the dict
Message(found, valid, lines) ==
    IF lines # <<>> THEN [header |-> found, lines |-> lines]
    ELSE [header |-> valid, lines |-> <<>>]

\* faulty variant: the consistency pass runs before the range pass
validate_delivery_person_rating_consistency_first(cols, d) ==
    IF "delivery_person_id" \notin cols \/ "delivery_person_rating" \notin cols
    THEN Raise("ValueError")
    ELSE LET discrepancies ==
                 append_all(append_all(<<>>, inconsistent_ratings(d)), invalid_ratings(d))
         IN Return(Message("Discrepancies found in delivery person ratings:",
                           "All delivery_person_ids have valid and consistent ratings.",
                           discrepancies))

validate_delivery_person_rating(cols, d) ==
    IF "delivery_person_id" \notin cols \/ "delivery_person_rating" \notin cols
    THEN Raise("ValueError")
    ELSE LET discrepancies ==
                 append_all(append_all(<<>>, invalid_ratings(d)), inconsistent_ratings(d))
         IN Return(Message("Discrepancies found in delivery person ratings:",
                           "All delivery_person_ids have valid and consistent ratings.",
                           discrepancies))

----------------------------------------------------------------------------
(* validate_order_date *)

\* pd.to_datetime(cell, errors='coerce'): a date string parses, anything that
\* does not parse and every missing value becomes NaT, a datetime stays
to_datetime(c) ==
    CASE c.kind = "str" -> Timestamp(c.d)
      [] c.kind = "ts" -> c
      [] OTHER -> NaT

\* data['order_date'] = pd.to_datetime(data['order_date'], errors='coerce'):
\* the assignment writes the column of the caller's DataFrame
convert_order_date(d) ==
    [i \in 1..Len(d) |-> [d[i] EXCEPT !["order_date"] = to_datetime(@)]]

\* data[mask]['order_date'].tolist(); S is the set of the rows the mask keeps
date_list(d, S) ==
    LET idx == Masked(S)
    IN [j \in 1..Len(idx) |-> d[idx[j]]["order_date"]]

\* the rows whose order_date is null
null_dates(d) == {i \in 1..Len(d) : isnull_date(d[i]["order_date"])}

\* order_date > pd.Timestamp.now(); a comparison with NaT is False
is_future(c, clock) == c.kind = "ts" /\ c.d > clock

\* pd.api.types.is_datetime64_any_dtype(data['order_date'])
is_datetime64_any_dtype(d) == \A i \in 1..Len(d) : d[i]["order_date"].kind \in {"ts", "nat"}

Entry(issue, n, list) == [issue |-> issue, count |-> n, list |-> list]

\* faulty variant: the dtype is tested on the column as it was given
order_date_discrepancies_dtype_before(d, converted, clock) ==
    LET missing_dates == date_list(d, null_dates(d))
        invalid_dates == date_list(converted, null_dates(converted))
        future_dates ==
            date_list(converted, {i \in 1..Len(converted) :
                                     is_future(converted[i]["order_date"], clock)})
    IN (IF missing_dates # <<>>
        THEN <<Entry("missing_dates", Len(missing_dates), <<>>)>> ELSE <<>>)
       \o (IF invalid_dates # <<>>
           THEN <<Entry("invalid_dates", Len(invalid_dates), invalid_dates)>> ELSE <<>>)
       \o (IF future_dates # <<>>
           THEN <<Entry("future_dates", Len(future_dates), future_dates)>> ELSE <<>>)
       \o (IF ~is_datetime64_any_dtype(d)
           THEN <<Entry("format_error", 0, <<>>)>> ELSE <<>>)

\* the entries of the discrepancies dict, in insertion order; converted is the
\* DataFrame after line 244
order_date_discrepancies(d, converted, clock) ==
    LET missing_dates == date_list(d, null_dates(d))
        invalid_dates == date_list(converted, null_dates(converted))
        future_dates ==
            date_list(converted, {i \in 1..Len(converted) :
                                     is_future(converted[i]["order_date"], clock)})
    IN (IF missing_dates # <<>>
        THEN <<Entry("missing_dates", Len(missing_dates), <<>>)>> ELSE <<>>)
       \o (IF invalid_dates # <<>>
           THEN <<Entry("invalid_dates", Len(invalid_dates), invalid_dates)>> ELSE <<>>)
       \o (IF future_dates # <<>>
           THEN <<Entry("future_dates", Len(future_dates), future_dates)>> ELSE <<>>)
       \o (IF ~is_datetime64_any_dtype(converted)
           THEN <<Entry("format_error", 0, <<>>)>> ELSE <<>>)

\* returns the report and the DataFrame as the call leaves it
validate_order_date(cols, d, clock) ==
    IF "order_date" \notin cols
    THEN [raised |-> "ValueError", out |-> <<>>, data |-> d]
    ELSE LET converted == convert_order_date(d)
         IN [raised |-> "none",
             out |-> Message("Discrepancies found in order dates:",
                             "All order dates are valid and consistent.",
                             order_date_discrepancies(d, converted, clock)),
             data |-> converted]

----------------------------------------------------------------------------
(* validate_order_time *)

\* pd.to_datetime(cell, format='%H:%M:%S', errors='raise') raises ValueError
\* on a string that does not match; a missing value gives NaT and no error
time_raises(c) == c.kind = "badstr"

\* faulty variant: only the first conversion is inside the try
row_invalid_time_ordered(r) == time_raises(r["time_ordered"])

\* the except branch: either conversion of the row raised
row_invalid(r) == time_raises(r["time_ordered"]) \/ time_raises(r["time_order_picked"])

\* the if inside the try: time_order_picked < time_ordered; with NaT it is False
row_inconsistent(r) ==
    /\ ~row_invalid(r)
    /\ r["time_ordered"].kind = "str"
    /\ r["time_order_picked"].kind = "str"
    /\ r["time_order_picked"].t < r["time_ordered"].t

\* the (time_ordered, time_order_picked) tuples the loop appends for the rows
\* of S, in row order
time_pairs(d, S) ==
    LET idx == SortedSeq(S)
    IN [j \in 1..Len(idx) |-> <<d[idx[j]]["time_ordered"], d[idx[j]]["time_order_picked"]>>]

order_time_discrepancies(d) ==
    LET missing_ordered == Masked({i \in 1..Len(d) : d[i]["time_ordered"].kind = "null"})
        missing_picked == Masked({i \in 1..Len(d) : d[i]["time_order_picked"].kind = "null"})
        invalid_times == time_pairs(d, {i \in 1..Len(d) : row_invalid(d[i])})
        inconsistent_times == time_pairs(d, {i \in 1..Len(d) : row_inconsistent(d[i])})
    IN (IF missing_ordered # <<>>
        THEN <<Entry("missing_time_ordered", Len(missing_ordered), <<>>)>> ELSE <<>>)
       \o (IF missing_picked # <<>>
           THEN <<Entry("missing_time_order_picked", Len(missing_picked), <<>>)>> ELSE <<>>)
       \o (IF invalid_times # <<>>
           THEN <<Entry("invalid_times", Len(invalid_times), invalid_times)>> ELSE <<>>)
       \o (IF inconsistent_times # <<>>
           THEN <<Entry("inconsistent_times", Len(inconsistent_times), inconsistent_times)>>
           ELSE <<>>)

validate_order_time(cols, d) ==
    IF "time_ordered" \notin cols \/ "time_order_picked" \notin cols
    THEN Raise("ValueError")
    ELSE Return(Message("Discrepancies found in order times:",
                        "All order times are valid and consistent.",
                        order_time_discrepancies(d)))

----------------------------------------------------------------------------
(* validate_delivery_time *)

\* faulty variant: the bounds themselves are rejected
delivery_time_discrepancies_exclusive(d) ==
    LET negative_times == Masked({i \in 1..Len(d) :
                                     /\ ~isnull(d[i]["delivery_time"])
                                     /\ Val(d[i]["delivery_time"]) <= 0})
        high_times == Masked({i \in 1..Len(d) :
                                 /\ ~isnull(d[i]["delivery_time"])
                                 /\ Val(d[i]["delivery_time"]) >= 120})
    IN (IF negative_times # <<>> THEN <<"Negative delivery times found.">> ELSE <<>>)
       \o (IF high_times # <<>>
           THEN <<"Delivery times exceeding 120 minutes found.">> ELSE <<>>)

\* the list of discrepancies: delivery_time < 0, then delivery_time > 120; a
\* comparison with NaN is False
delivery_time_discrepancies(d) ==
    LET negative_times == Masked({i \in 1..Len(d) :
                                     /\ ~isnull(d[i]["delivery_time"])
                                     /\ Val(d[i]["delivery_time"]) < 0})
        high_times == Masked({i \in 1..Len(d) :
                                 /\ ~isnull(d[i]["delivery_time"])
                                 /\ Val(d[i]["delivery_time"]) > 120})
    IN (IF negative_times # <<>> THEN <<"Negative delivery times found.">> ELSE <<>>)
       \o (IF high_times # <<>>
           THEN <<"Delivery times exceeding 120 minutes found.">> ELSE <<>>)

validate_delivery_time(cols, d) ==
    IF "delivery_time" \notin cols
    THEN Raise("ValueError")
    ELSE Return(delivery_time_discrepancies(d))

----------------------------------------------------------------------------
(* validate_restaurant_coordinate, validate_delivery_location_coordinate *)

\* the rows whose latitude is < -90 or > 90, as the (key, issue) the loop appends
invalid_latitude(d, id, lat) ==
    LET idx == Masked({i \in 1..Len(d) :
                          ~isnull(d[i][lat]) /\ (Val(d[i][lat]) < -90 \/ Val(d[i][lat]) > 90)})
    IN [j \in 1..Len(idx) |->
           [key |-> d[idx[j]][id],
            issue |-> [msg |-> "Invalid latitude", detail |-> <<d[idx[j]][lat]>>]]]

\* the rows whose longitude is < -180 or > 180
invalid_longitude(d, id, lon) ==
    LET idx == Masked({i \in 1..Len(d) :
                          ~isnull(d[i][lon]) /\ (Val(d[i][lon]) < -180 \/ Val(d[i][lon]) > 180)})
    IN [j \in 1..Len(idx) |->
           [key |-> d[idx[j]][id],
            issue |-> [msg |-> "Invalid longitude", detail |-> <<d[idx[j]][lon]>>]]]

\* data.groupby(id)[[lat, lon]].unique(): the selection with a list of columns
\* is a DataFrameGroupBy, which has no method unique; the attribute lookup
\* raises AttributeError whatever the rows are
dataframe_groupby_unique(d, id, lat, lon) == Raise("AttributeError")

\* the two range passes run, then the lookup of .unique raises
coordinate_discrepancies(d, id, lat, lon) ==
    LET discrepancies ==
            append_all(append_all(<<>>, invalid_latitude(d, id, lat)),
                       invalid_longitude(d, id, lon))
        coordinate_groups == dataframe_groupby_unique(d, id, lat, lon)
    IN IF coordinate_groups.raised # "none" THEN coordinate_groups
       ELSE Return(discrepancies)

validate_restaurant_coordinate(cols, d) ==
    IF ~({"restaurant_id", "restaurant_latitude", "restaurant_longitude"} \subseteq cols)
    THEN Raise("ValueError")
    ELSE coordinate_discrepancies(d, "restaurant_id", "restaurant_latitude",
                                  "restaurant_longitude")

validate_delivery_location_coordinate(cols, d) ==
    IF ~({"delivery_location_id", "delivery_location_latitude",
          "delivery_location_longitude"} \subseteq cols)
    THEN Raise("ValueError")
    ELSE coordinate_discrepancies(d, "delivery_location_id", "delivery_location_latitude",
                                  "delivery_location_longitude")

----------------------------------------------------------------------------
(* The set-membership validators: weather_condition, road_traffic_density,   *)
(* vehicle_condition, type_of_order, type_of_vehicle, festival, city         *)

expected_weather_conditions == {"Fog", "Cloudy", "Sunny", "Sandstorms", "Windy", "Stormy"}
expected_densities == {"Low", "Medium", "High", "Jam"}
\* a dict: isin iterates its keys
expected_vehicle_conditions ==
    (0 :> "Terrible") @@ (1 :> "Bad") @@ (2 :> "Average") @@ (3 :> "Good")
expected_orders == {"Meal", "Snack", "Drinks", "Buffet"}
expected_vehicles == {"motorcycle", "scooter", "electric_scooter", "bicycle"}
expected_festivals == {"No", "Yes"}
\* faulty variant: the first name in another spelling
expected_cities_respelled == {"Metropolitan", "Urban", "Semi-Urban"}

expected_cities == {"Metropolitian", "Urban", "Semi-Urban"}

\* data[data[col].isnull()]
missing_rows(d, col) == Masked({i \in 1..Len(d) : isnull(d[i][col])})

\* faulty variant: the mask without its negation
invalid_rows_isin(d, col, expected) ==
    Masked({i \in 1..Len(d) : ~isnull(d[i][col]) /\ Val(d[i][col]) \in expected})

\* data[~data[col].isin(expected)]: NaN is in no set, so ~isin keeps the rows
\* whose cell is missing along with those whose value is not expected
invalid_rows(d, col, expected) ==
    Masked({i \in 1..Len(d) : isnull(d[i][col]) \/ Val(d[i][col]) \notin expected})

\* the entries of the discrepancies dict, in insertion order
set_discrepancies(d, col, expected, missing_key, invalid_key) ==
    LET missing == missing_rows(d, col)
        invalid == invalid_rows(d, col, expected)
        values == [j \in 1..Len(invalid) |-> d[invalid[j]][col]]
    IN (IF missing # <<>> THEN <<Entry(missing_key, Len(missing), <<>>)>> ELSE <<>>)
       \o (IF invalid # <<>>
           THEN <<Entry(invalid_key, Len(invalid), unique(values))>> ELSE <<>>)

validate_weather_condition(cols, d) ==
    IF "weather_condition" \notin cols
    THEN Raise("ValueError")
    ELSE Return(Message("Discrepancies found in weather conditions:",
                        "All weather conditions are valid and consistent.",
                        set_discrepancies(d, "weather_condition",
                                          expected_weather_conditions,
                                          "missing_weather_conditions",
                                          "invalid_weather_conditions")))

validate_road_traffic_density(cols, d) ==
    IF "road_traffic_density" \notin cols
    THEN Raise("ValueError")
    ELSE Return(Message("Discrepancies found in road traffic densities:",
                        "All road traffic densities are valid and consistent.",
                        set_discrepancies(d, "road_traffic_density",
                                          expected_densities,
                                          "missing_road_traffic_density",
                                          "invalid_road_traffic_density")))

validate_vehicle_condition(cols, d) ==
    IF "vehicle_condition" \notin cols
    THEN Raise("ValueError")
    ELSE Return(Message("Discrepancies found in vehicle conditions:",
                        "All vehicle conditions are valid and consistent.",
                        set_discrepancies(d, "vehicle_condition",
                                          DOMAIN expected_vehicle_conditions,
                                          "missing_vehicle_conditions",
                                          "invalid_vehicle_conditions")))

validate_type_of_order(cols, d) ==
    IF "type_of_order" \notin cols
    THEN Raise("ValueError")
    ELSE Return(Message("Discrepancies found in type of orders:",
                        "All type of orders are valid and consistent.",
                        set_discrepancies(d, "type_of_order", expected_orders,
                                          "missing_type_of_order",
                                          "invalid_type_of_order")))

validate_type_of_vehicle(cols, d) ==
    IF "type_of_vehicle" \notin cols
    THEN Raise("ValueError")
    ELSE Return(Message("Discrepancies found in type of vehicles:",
                        "All type of vehicles are valid and consistent.",
                        set_discrepancies(d, "type_of_vehicle", expected_vehicles,
                                          "missing_type_of_vehicle",
                                          "invalid_type_of_vehicle")))

validate_festival(cols, d) ==
    IF "festival" \notin cols
    THEN Raise("ValueError")
    ELSE Return(Message("Discrepancies found in festivals:",
                        "All festivals are valid and consistent.",
                        set_discrepancies(d, "festival", expected_festivals,
                                          "missing_festivals", "invalid_festivals")))

validate_city(cols, d) ==
    IF "city" \notin cols
    THEN Raise("ValueError")
    ELSE Return(Message("Discrepancies found in cities:",
                        "All cities are valid and consistent.",
                        set_discrepancies(d, "city", expected_cities,
                                          "missing_cities", "invalid_cities")))

----------------------------------------------------------------------------
(* scripts/data_cleaning.py: clean_missing_values on a numeric Series *)

RECURSIVE gcd(_, _)
gcd(a, b) == IF b = 0 THEN a ELSE gcd(b, a % b)

\* a float: the non-negative rational n / d in lowest terms
Ratio(n, d) == LET g == gcd(n, d) IN [num |-> n \div g, den |-> d \div g]
Number(v) == Ratio(v, 1)

\* the Series data[col]
series(d, col) == [i \in 1..Len(d) |-> d[i][col]]

\* the numbers of a Series as floats (a numeric Series that holds NaN is a
\* float Series)
floats(s) == [i \in 1..Len(s) |-> IF isnull(s[i]) THEN NA ELSE Cell(Number(Val(s[i])))]

\* Series.dropna()
dropna(s) == SelectSeq(s, LAMBDA c : ~isnull(c))

\* the numbers a Series holds, NaN skipped (skipna=True)
numbers(s) ==
    LET idx == Masked({i \in 1..Len(s) : ~isnull(s[i])})
    IN [j \in 1..Len(idx) |-> Val(s[idx[j]])]

RECURSIVE sum(_)
sum(v) == IF v = <<>> THEN 0 ELSE Head(v) + sum(Tail(v))

RECURSIVE sort_values(_)
sort_values(v) ==
    IF v = <<>> THEN <<>>
    ELSE LET i == CHOOSE k \in 1..Len(v) : \A j \in 1..Len(v) : v[k] <= v[j]
         IN <<v[i]>> \o sort_values(SubSeq(v, 1, i - 1) \o SubSeq(v, i + 1, Len(v)))

\* Series.mean(): NaN is skipped; the mean of no value is NaN
mean(v) == IF v = <<>> THEN NA ELSE Cell(Ratio(sum(v), Len(v)))

\* Series.median(): NaN is skipped; the middle value, or the mean of the two
\* middle values
median(v) ==
    LET sorted == sort_values(v)
        n == Len(v)
    IN IF n = 0 THEN NA
       ELSE IF n % 2 = 1 THEN Cell(Number(sorted[(n + 1) \div 2]))
       ELSE Cell(Ratio(sorted[n \div 2] + sorted[n \div 2 + 1], 2))

\* Series.mode(): the most frequent values, ascending; NaN is not counted
mode(v) ==
    LET times(x) == Cardinality({i \in 1..Len(v) : v[i] = x})
    IN SortedSeq({x \in Range(v) : \A y \in Range(v) : times(y) <= times(x)})

\* Series.fillna(value): a NaN value fills nothing
fillna(s, value) == [i \in 1..Len(s) |-> IF isnull(s[i]) THEN value ELSE s[i]]

\* fill_value is None or a number; method 'mean' is the default of the
\* parameter, so the last branch is taken only for a method that is none of
\* the four names
clean_missing_values(s, fill_value, method) ==
    CASE method = "mean" -> Return(fillna(floats(s), mean(numbers(s))))
      [] method = "median" -> Return(fillna(floats(s), median(numbers(s))))
      [] method = "mode" ->
             \* .iloc[0] of an empty Series
             IF mode(numbers(s)) = <<>> THEN Raise("IndexError")
             ELSE Return(fillna(floats(s), Cell(Number(mode(numbers(s))[1]))))
      [] method = "drop" -> Return(dropna(floats(s)))
      [] OTHER ->
             \* fillna(None)
             IF isnull(fill_value) THEN Raise("ValueError")
             ELSE Return(fillna(floats(s), Cell(Number(Val(fill_value)))))

----------------------------------------------------------------------------
(* scripts/data_ingestion.py: load_data *)

\* what the file system holds at a path
CsvFile(table) == [kind |-> "csv", table |-> table]
NoCsvFile(kind) == [kind |-> kind, table |-> <<>>]

\* pd.read_csv(file_path): the table of a well-formed file, or the exception
\* for a path that names no file, a directory, an empty file, a file whose
\* rows differ in length, or bytes that are not text
read_csv(file) ==
    CASE file.kind = "csv" -> Return(file.table)
      [] file.kind = "absent" -> Raise("FileNotFoundError")
      [] file.kind = "directory" -> Raise("IsADirectoryError")
      [] file.kind = "empty" -> Raise("EmptyDataError")
      [] file.kind = "ragged" -> Raise("ParserError")
      [] file.kind = "binary" -> Raise("UnicodeDecodeError")

\* the classes an except clause for ValueError catches, and one for Exception
ValueErrors == {"ValueError", "EmptyDataError", "ParserError", "UnicodeDecodeError"}
Exceptions ==
    ValueErrors \cup {"OSError", "FileNotFoundError", "IsADirectoryError", "IndexError",
                      "AttributeError"}

None == [none |-> TRUE, table |-> <<>>]
DataFrame(table) == [none |-> FALSE, table |-> table]

\* faulty variant: the except clause names ValueError
load_data_except_value_error(file) ==
    LET r == read_csv(file)
    IN IF r.raised = "none" THEN Return(DataFrame(r.out))
       ELSE IF r.raised \in ValueErrors THEN Return(None)
       ELSE r

\* try: return pd.read_csv(...)  except Exception: return None
load_data(file) ==
    LET r == read_csv(file)
    IN IF r.raised = "none" THEN Return(DataFrame(r.out))
       ELSE IF r.raised \in Exceptions THEN Return(None)
       ELSE r

----------------------------------------------------------------------------
(* The DataFrames the caller may hold *)

AllColumns ==
    {"id", "delivery_person_id", "delivery_person_age", "delivery_person_rating",
     "order_date", "time_ordered", "time_order_picked", "delivery_time",
     "restaurant_id", "restaurant_latitude", "restaurant_longitude",
     "delivery_location_id", "delivery_location_latitude", "delivery_location_longitude",
     "weather_condition", "road_traffic_density", "vehicle_condition", "type_of_order",
     "type_of_vehicle", "festival", "city"}

Ids == {1, 2}
Persons == {1, 2}
Ages == {30, 31}
Ratings == {0, 1, 5, 6}
Dates == 1..MaxNow
Times == {1, 2}

Opt(S) == {NA} \cup {Cell(v) : v \in S}
DateCells == {NoDate, BadDateStr} \cup {DateStr(n) : n \in Dates}
TimeCells == {NoTime, BadTimeStr} \cup {TimeStr(n) : n \in Times}

\* a row with nothing wrong in it
DefaultRow ==
    [id |-> Cell(1), delivery_person_id |-> Cell(1), delivery_person_age |-> Cell(30),
     delivery_person_rating |-> Cell(3), order_date |-> DateStr(1),
     time_ordered |-> TimeStr(1), time_order_picked |-> TimeStr(2),
     delivery_time |-> Cell(30),
     restaurant_id |-> Cell(1), restaurant_latitude |-> Cell(10),
     restaurant_longitude |-> Cell(10),
     delivery_location_id |-> Cell(1), delivery_location_latitude |-> Cell(10),
     delivery_location_longitude |-> Cell(10),
     weather_condition |-> Cell("Sunny"), road_traffic_density |-> Cell("Low"),
     vehicle_condition |-> Cell(0), type_of_order |-> Cell("Meal"),
     type_of_vehicle |-> Cell("scooter"), festival |-> Cell("No"),
     city |-> Cell("Urban")]

RowsId ==
    {[DefaultRow EXCEPT !.id = a, !.delivery_person_id = b] :
        a \in Opt(Ids), b \in Opt(Persons)}
RowsAge ==
    {[DefaultRow EXCEPT !.delivery_person_id = a, !.delivery_person_age = b] :
        a \in Opt(Persons), b \in Opt(Ages)}
RowsRating ==
    {[DefaultRow EXCEPT !.delivery_person_id = a, !.delivery_person_rating = b] :
        a \in Opt(Persons), b \in Opt(Ratings)}
RowsDate == {[DefaultRow EXCEPT !.order_date = c] : c \in DateCells}
RowsTime ==
    {[DefaultRow EXCEPT !.time_ordered = a, !.time_order_picked = b] :
        a \in TimeCells, b \in TimeCells}

\* delivery times on and beside the two bounds
DeliveryTimes == {-1, 0, 120, 121}
RowsDeliveryTime == {[DefaultRow EXCEPT !.delivery_time = c] : c \in Opt(DeliveryTimes)}

\* coordinates inside and outside the ranges of latitude and longitude
Latitudes == {10, 91}
Longitudes == {10, 181}
RowsRestaurant ==
    {[DefaultRow EXCEPT !.restaurant_id = a, !.restaurant_latitude = b,
                        !.restaurant_longitude = c] :
        a \in Opt(Ids), b \in {Cell(v) : v \in Latitudes},
        c \in {Cell(v) : v \in Longitudes}}
RowsDeliveryLocation ==
    {[DefaultRow EXCEPT !.delivery_location_id = a, !.delivery_location_latitude = b,
                        !.delivery_location_longitude = c] :
        a \in Opt(Ids), b \in {Cell(v) : v \in Latitudes},
        c \in {Cell(v) : v \in Longitudes}}

\* for each categorical column, expected values and values that are not
Weathers == {"Sunny", "Cloudy", "Foggy"}
Densities == {"Low", "Jam", "Heavy"}
VehicleConditions == {0, 3, 4}
Orders == {"Meal", "Buffet", "Dessert"}
Vehicles == {"scooter", "bicycle", "car"}
Festivals == {"No", "Yes", "Maybe"}
Cities == {"Metropolitian", "Metropolitan", "Urban", "Semi-Urban", "Rural"}

RowsWeather == {[DefaultRow EXCEPT !.weather_condition = c] : c \in Opt(Weathers)}
RowsDensity == {[DefaultRow EXCEPT !.road_traffic_density = c] : c \in Opt(Densities)}
RowsVehicleCondition ==
    {[DefaultRow EXCEPT !.vehicle_condition = c] : c \in Opt(VehicleConditions)}
RowsOrder == {[DefaultRow EXCEPT !.type_of_order = c] : c \in Opt(Orders)}
RowsVehicle == {[DefaultRow EXCEPT !.type_of_vehicle = c] : c \in Opt(Vehicles)}
RowsFestival == {[DefaultRow EXCEPT !.festival = c] : c \in Opt(Festivals)}
RowsCity == {[DefaultRow EXCEPT !.city = c] : c \in Opt(Cities)}

\* the methods a caller may name: the four of the docstring and another one
Methods == {"mean", "median", "mode", "drop", "constant"}

\* the paths that name no well-formed CSV file
FileFaults == {"absent", "directory", "empty", "ragged", "binary"}

\* every DataFrame of at most n rows drawn from Rows
Frames(Rows, n) == UNION {[1..k -> Rows] : k \in 0..n}

RECURSIVE Lacking(_)
\* the sets of at most k columns
Lacking(k) ==
    IF k = 0 THEN {{}}
    ELSE LET fewer == Lacking(k - 1)
         IN fewer \cup {m \cup {c} : m \in fewer, c \in AllColumns}

\* the DataFrame d with only the columns cols
Project(d, cols) == [i \in 1..Len(d) |-> [c \in cols |-> d[i][c]]]

\* rows [{id:1, age:30}, {id:1, age:31}, {id:2, age:40}]
ExampleAges ==
    <<[DefaultRow EXCEPT !.delivery_person_id = Cell(1), !.delivery_person_age = Cell(30)],
      [DefaultRow EXCEPT !.delivery_person_id = Cell(1), !.delivery_person_age = Cell(31)],
      [DefaultRow EXCEPT !.delivery_person_id = Cell(2), !.delivery_person_age = Cell(40)]>>

\* ratings [0, 1, 5, 6, 3], one delivery person each
ExampleRatings ==
    LET r == <<0, 1, 5, 6, 3>>
    IN [i \in 1..5 |->
           [DefaultRow EXCEPT !.delivery_person_id = Cell(i),
                              !.delivery_person_rating = Cell(r[i])]]

NoReport == [rule |-> "none", raised |-> "none", out |-> <<>>]

----------------------------------------------------------------------------
(* The calls *)

Returned(rule, r) == report' = [rule |-> rule, raised |-> r.raised, out |-> r.out]

ValidateId ==
    /\ Returned("validate_id", validate_id(columns, data))
    /\ UNCHANGED <<columns, data, now>>

ValidateDeliveryPersonId ==
    /\ Returned("validate_delivery_person_id", validate_delivery_person_id(columns, data))
    /\ UNCHANGED <<columns, data, now>>

ValidateDeliveryPersonAge ==
    /\ Returned("validate_delivery_person_age", validate_delivery_person_age(columns, data))
    /\ UNCHANGED <<columns, data, now>>

ValidateDeliveryPersonRating ==
    /\ Returned("validate_delivery_person_rating",
                validate_delivery_person_rating(columns, data))
    /\ UNCHANGED <<columns, data, now>>

\* pd.Timestamp.now() reads a clock that never runs backwards
ValidateOrderDate ==
    \E clock \in now..MaxNow :
        LET r == validate_order_date(columns, data, clock)
        IN /\ Returned("validate_order_date", r)
           /\ data' = r.data
           /\ now' = IF r.raised = "none" THEN clock ELSE now
           /\ UNCHANGED columns

ValidateOrderTime ==
    /\ Returned("validate_order_time", validate_order_time(columns, data))
    /\ UNCHANGED <<columns, data, now>>

ValidateDeliveryTime ==
    /\ Returned("validate_delivery_time", validate_delivery_time(columns, data))
    /\ UNCHANGED <<columns, data, now>>

ValidateRestaurantCoordinate ==
    /\ Returned("validate_restaurant_coordinate",
                validate_restaurant_coordinate(columns, data))
    /\ UNCHANGED <<columns, data, now>>

ValidateDeliveryLocationCoordinate ==
    /\ Returned("validate_delivery_location_coordinate",
                validate_delivery_location_coordinate(columns, data))
    /\ UNCHANGED <<columns, data, now>>

ValidateWeatherCondition ==
    /\ Returned("validate_weather_condition", validate_weather_condition(columns, data))
    /\ UNCHANGED <<columns, data, now>>

ValidateRoadTrafficDensity ==
    /\ Returned("validate_road_traffic_density",
                validate_road_traffic_density(columns, data))
    /\ UNCHANGED <<columns, data, now>>

ValidateVehicleCondition ==
    /\ Returned("validate_vehicle_condition", validate_vehicle_condition(columns, data))
    /\ UNCHANGED <<columns, data, now>>

ValidateTypeOfOrder ==
    /\ Returned("validate_type_of_order", validate_type_of_order(columns, data))
    /\ UNCHANGED <<columns, data, now>>

ValidateTypeOfVehicle ==
    /\ Returned("validate_type_of_vehicle", validate_type_of_vehicle(columns, data))
    /\ UNCHANGED <<columns, data, now>>

ValidateFestival ==
    /\ Returned("validate_festival", validate_festival(columns, data))
    /\ UNCHANGED <<columns, data, now>>

ValidateCity ==
    /\ Returned("validate_city", validate_city(columns, data))
    /\ UNCHANGED <<columns, data, now>>

\* clean_missing_values(raw_data['delivery_person_age'], ...): the caller gives
\* a fill_value or none, and a method or none
CleanMissingValues ==
    \E fill_value \in {NA, Cell(0)}, given \in Methods \cup {"omitted"} :
        LET method == IF given = "omitted" THEN "mean" ELSE given
            r == clean_missing_values(series(data, "delivery_person_age"),
                                      fill_value, method)
        IN /\ report' = [rule |-> "clean_missing_values", raised |-> r.raised,
                         out |-> [fill_value |-> fill_value, method |-> given,
                                  data |-> r.out]]
           /\ UNCHANGED <<columns, data, now>>

\* load_data(file_path), whatever the path names; a well-formed file holds
\* some table
LoadData ==
    \E file \in {CsvFile(data)} \cup {NoCsvFile(k) : k \in FileFaults} :
        LET r == load_data(file)
        IN /\ report' = [rule |-> "load_data", raised |-> r.raised,
                         out |-> [file |-> file, returned |-> r.out]]
           /\ UNCHANGED <<columns, data, now>>

----------------------------------------------------------------------------
(* Specifications *)

\* the notebook: any validator, any number of times, on a complete DataFrame
Init ==
    /\ columns = AllColumns
    /\ data \in Frames(RowsDate \cup RowsTime \cup RowsRating, MaxRunRows)
    /\ now = 1
    /\ report = NoReport

Next ==
    \/ ValidateId
    \/ ValidateDeliveryPersonId
    \/ ValidateDeliveryPersonAge
    \/ ValidateDeliveryPersonRating
    \/ ValidateOrderDate
    \/ ValidateOrderTime
    \/ ValidateDeliveryTime
    \/ ValidateRestaurantCoordinate
    \/ ValidateDeliveryLocationCoordinate
    \/ ValidateWeatherCondition
    \/ ValidateRoadTrafficDensity
    \/ ValidateVehicleCondition
    \/ ValidateTypeOfOrder
    \/ ValidateTypeOfVehicle
    \/ ValidateFestival
    \/ ValidateCity

Spec == Init /\ [][Next]_vars

\* the functional-dependency and rating checks on every small DataFrame
InitFD ==
    /\ columns = AllColumns
    /\ data \in Frames(RowsId, MaxRows) \cup Frames(RowsAge, MaxRows)
                \cup Frames(RowsRating, MaxRows) \cup {ExampleAges, ExampleRatings}
    /\ now = 1
    /\ report = NoReport

NextFD ==
    \/ ValidateId
    \/ ValidateDeliveryPersonId
    \/ ValidateDeliveryPersonAge
    \/ ValidateDeliveryPersonRating

SpecFD == InitFD /\ [][NextFD]_vars

\* the range and set-membership checks on every small DataFrame
InitDomain ==
    /\ columns = AllColumns
    /\ data \in Frames(RowsDeliveryTime, MaxRows) \cup Frames(RowsWeather, MaxRows)
                \cup Frames(RowsDensity, MaxRows)
                \cup Frames(RowsVehicleCondition, MaxRows)
                \cup Frames(RowsOrder, MaxRows) \cup Frames(RowsVehicle, MaxRows)
                \cup Frames(RowsFestival, MaxRows) \cup Frames(RowsCity, MaxRows)
                \cup Frames(RowsRestaurant, MaxRunRows)
                \cup Frames(RowsDeliveryLocation, MaxRunRows)
    /\ now = 1
    /\ report = NoReport

NextDomain ==
    \/ ValidateDeliveryTime
    \/ ValidateRestaurantCoordinate
    \/ ValidateDeliveryLocationCoordinate
    \/ ValidateWeatherCondition
    \/ ValidateRoadTrafficDensity
    \/ ValidateVehicleCondition
    \/ ValidateTypeOfOrder
    \/ ValidateTypeOfVehicle
    \/ ValidateFestival
    \/ ValidateCity

SpecDomain == InitDomain /\ [][NextDomain]_vars

\* the date and time checks on every small DataFrame
InitOrder ==
    /\ columns = AllColumns
    /\ data \in Frames(RowsDate \cup RowsTime, MaxRunRows)
    /\ now = 1
    /\ report = NoReport

NextOrder ==
    \/ ValidateOrderDate
    \/ ValidateOrderTime

SpecOrder == InitOrder /\ [][NextOrder]_vars

\* the script: loading the file and cleaning the age column
InitPrepare ==
    /\ columns = AllColumns
    /\ data \in Frames({[DefaultRow EXCEPT !.delivery_person_age = c] : c \in Opt(Ages)},
                       MaxRows)
    /\ now = 1
    /\ report = NoReport

NextPrepare ==
    \/ LoadData
    \/ CleanMissingValues

SpecPrepare == InitPrepare /\ [][NextPrepare]_vars

\* DataFrames that lack up to MaxMissing of the columns
InitSchema ==
    /\ columns \in {AllColumns \ m : m \in Lacking(MaxMissing)}
    /\ \E d \in {<<DefaultRow>>,
                  <<DefaultRow,
                    [DefaultRow EXCEPT !.delivery_person_age = Cell(31),
                                       !.delivery_person_rating = Cell(6),
                                       !.order_date = BadDateStr,
                                       !.time_ordered = BadTimeStr,
                                       !.delivery_time = Cell(121),
                                       !.restaurant_latitude = Cell(91),
                                       !.city = Cell("Rural")]>>} :
           data = Project(d, columns)
    /\ now = 1
    /\ report = NoReport

SpecSchema == InitSchema /\ [][Next]_vars

----------------------------------------------------------------------------
(* What the claims speak of *)

Rules ==
    {"validate_id", "validate_delivery_person_id", "validate_delivery_person_age",
     "validate_delivery_person_rating", "validate_order_date", "validate_order_time",
     "validate_delivery_time", "validate_restaurant_coordinate",
     "validate_delivery_location_coordinate", "validate_weather_condition",
     "validate_road_traffic_density", "validate_vehicle_condition",
     "validate_type_of_order", "validate_type_of_vehicle", "validate_festival",
     "validate_city"}

\* the columns each function's docstring says the DataFrame contains
Required(rule) ==
    CASE rule = "validate_id" -> {"id", "delivery_person_id"}
      [] rule = "validate_delivery_person_id" -> {"id", "delivery_person_id"}
      [] rule = "validate_delivery_person_age" ->
             {"delivery_person_id", "delivery_person_age"}
      [] rule = "validate_delivery_person_rating" ->
             {"delivery_person_id", "delivery_person_rating"}
      [] rule = "validate_order_date" -> {"order_date"}
      [] rule = "validate_order_time" -> {"time_ordered", "time_order_picked"}
      [] rule = "validate_delivery_time" -> {"delivery_time"}
      [] rule = "validate_restaurant_coordinate" ->
             {"restaurant_id", "restaurant_latitude", "restaurant_longitude"}
      [] rule = "validate_delivery_location_coordinate" ->
             {"delivery_location_id", "delivery_location_latitude",
              "delivery_location_longitude"}
      [] rule = "validate_weather_condition" -> {"weather_condition"}
      [] rule = "validate_road_traffic_density" -> {"road_traffic_density"}
      [] rule = "validate_vehicle_condition" -> {"vehicle_condition"}
      [] rule = "validate_type_of_order" -> {"type_of_order"}
      [] rule = "validate_type_of_vehicle" -> {"type_of_vehicle"}
      [] rule = "validate_festival" -> {"festival"}
      [] rule = "validate_city" -> {"city"}

\* what a call of rule returns or raises on the DataFrame (cols, d) at time clock
Outcome(rule, cols, d, clock) ==
    LET r == CASE rule = "validate_id" -> validate_id(cols, d)
               [] rule = "validate_delivery_person_id" -> validate_delivery_person_id(cols, d)
               [] rule = "validate_delivery_person_age" ->
                      validate_delivery_person_age(cols, d)
               [] rule = "validate_delivery_person_rating" ->
                      validate_delivery_person_rating(cols, d)
               [] rule = "validate_order_date" -> validate_order_date(cols, d, clock)
               [] rule = "validate_order_time" -> validate_order_time(cols, d)
               [] rule = "validate_delivery_time" -> validate_delivery_time(cols, d)
               [] rule = "validate_restaurant_coordinate" ->
                      validate_restaurant_coordinate(cols, d)
               [] rule = "validate_delivery_location_coordinate" ->
                      validate_delivery_location_coordinate(cols, d)
               [] rule = "validate_weather_condition" ->
                      validate_weather_condition(cols, d)
               [] rule = "validate_road_traffic_density" ->
                      validate_road_traffic_density(cols, d)
               [] rule = "validate_vehicle_condition" ->
                      validate_vehicle_condition(cols, d)
               [] rule = "validate_type_of_order" -> validate_type_of_order(cols, d)
               [] rule = "validate_type_of_vehicle" -> validate_type_of_vehicle(cols, d)
               [] rule = "validate_festival" -> validate_festival(cols, d)
               [] rule = "validate_city" -> validate_city(cols, d)
    IN [raised |-> r.raised, out |-> r.out]

\* the last call was rule and it returned a report
Called(rule) == report.rule = rule /\ report.raised = "none"

\* the cells of column dep in the rows whose column key holds the cell c
DepValues(key, c, dep) == {data[i][dep] : i \in {j \in 1..Len(data) : data[j][key] = c}}

\* the values present (not missing) in column key
KeyValues(key) == {Val(data[i][key]) : i \in {j \in 1..Len(data) : data[j][key] # NA}}

\* every two rows that share their key cell share their dep cell
Consistent(key, dep) ==
    \A i, j \in 1..Len(data) : data[i][key] = data[j][key] => data[i][dep] = data[j][dep]

----------------------------------------------------------------------------
(* C1 - C5, C10: the functional-dependency and range checks, under SpecFD *)

\* C1: a delivery_person_id whose rows hold two or more distinct
\* delivery_person_age values is reported by validate_delivery_person_age
\* exactly once, and its entry lists every distinct value observed, each once.
C1_ViolatingKeyListedOnce ==
    Called("validate_delivery_person_age") =>
        \A k \in KeyValues("delivery_person_id") :
            LET seen == DepValues("delivery_person_id", Cell(k), "delivery_person_age")
                hits == {i \in 1..Len(report.out) : report.out[i].key = Cell(k)}
            IN Cardinality(seen) >= 2 =>
                   /\ Cardinality(hits) = 1
                   /\ \A i \in hits :
                          /\ Range(report.out[i].vals) = seen
                          /\ Len(report.out[i].vals) = Cardinality(seen)

\* rows id=1/age=30, id=1/age=31, id=2/age=40: one violation, for id 1, listing 30, 31
C1_Witness ==
    /\ Called("validate_delivery_person_age")
    /\ data = ExampleAges
    /\ report.out = <<[key |-> Cell(1), vals |-> <<Cell(30), Cell(31)>>]>>

\* C2: when all rows sharing a key share identical dependent values, validate_id
\* (both directions consistent) returns an empty list and
\* validate_delivery_person_age an empty dict.
C2_ConsistentNoViolations ==
    /\ (Called("validate_id") /\ Consistent("id", "delivery_person_id")
            /\ Consistent("delivery_person_id", "id")) => report.out = <<>>
    /\ (Called("validate_delivery_person_age")
            /\ Consistent("delivery_person_id", "delivery_person_age")) => report.out = <<>>

C2_Witness ==
    /\ Called("validate_id")
    /\ Consistent("id", "delivery_person_id")
    /\ Consistent("delivery_person_id", "id")
    /\ \E i, j \in 1..Len(data) : i # j /\ data[i]["id"] = data[j]["id"] /\ data[i]["id"] # NA
    /\ Cardinality(KeyValues("id")) = 2
    /\ report.out = <<>>

\* C3: rows whose key is missing form one group: when two rows with a missing
\* delivery_person_id hold different ages, validate_delivery_person_age reports
\* the missing-key group; likewise validate_id for rows with a missing id that
\* hold two delivery_person_ids.
C3_MissingKeyGrouped ==
    /\ Called("validate_delivery_person_age") =>
           (Cardinality(DepValues("delivery_person_id", NA, "delivery_person_age")) >= 2
                => \E i \in 1..Len(report.out) : report.out[i].key = NA)
    /\ Called("validate_id") =>
           (Cardinality(DepValues("id", NA, "delivery_person_id") \ {NA}) >= 2
                => \E i \in 1..Len(report.out) : report.out[i].subject = NA)

\* C4: a missing dependent value is a distinct value: a key whose rows hold a
\* concrete and a missing dependent value is reported by validate_id (either
\* direction), validate_delivery_person_age and the consistency pass of
\* validate_delivery_person_rating.
C4_MissingDependentDistinct ==
    LET Mixed(key, k, dep) ==
            /\ NA \in DepValues(key, Cell(k), dep)
            /\ DepValues(key, Cell(k), dep) # {NA}
    IN /\ Called("validate_id") =>
              /\ \A k \in KeyValues("id") :
                     Mixed("id", k, "delivery_person_id") =>
                         \E i \in 1..Len(report.out) :
                             report.out[i] = [msg |-> "ID has multiple delivery_person_ids.",
                                              subject |-> Cell(k)]
              /\ \A k \in KeyValues("delivery_person_id") :
                     Mixed("delivery_person_id", k, "id") =>
                         \E i \in 1..Len(report.out) :
                             report.out[i] = [msg |-> "Delivery Person ID has multiple ids.",
                                              subject |-> Cell(k)]
       /\ Called("validate_delivery_person_age") =>
              \A k \in KeyValues("delivery_person_id") :
                  Mixed("delivery_person_id", k, "delivery_person_age") =>
                      \E i \in 1..Len(report.out) : report.out[i].key = Cell(k)
       /\ Called("validate_delivery_person_rating") =>
              \A k \in KeyValues("delivery_person_id") :
                  Mixed("delivery_person_id", k, "delivery_person_rating") =>
                      \E i \in 1..Len(report.out.lines) :
                          /\ report.out.lines[i].key = Cell(k)
                          /\ \E n \in 1..Len(report.out.lines[i].issues) :
                                 report.out.lines[i].issues[n].msg = "Inconsistent ratings"

\* C5: validate_id reports an id exactly when it maps to more than one
\* delivery_person_id, and, under another message, a delivery_person_id exactly
\* when it maps to more than one id; it reports nothing else.
C5_BothDirectionsIndependent ==
    LET Many(key, k, dep) == Cardinality(DepValues(key, Cell(k), dep) \ {NA}) >= 2
        IdMsg(k) == [msg |-> "ID has multiple delivery_person_ids.", subject |-> Cell(k)]
        PersonMsg(k) == [msg |-> "Delivery Person ID has multiple ids.", subject |-> Cell(k)]
    IN Called("validate_id") =>
           /\ \A k \in KeyValues("id") :
                  Many("id", k, "delivery_person_id") <=> IdMsg(k) \in Range(report.out)
           /\ \A k \in KeyValues("delivery_person_id") :
                  Many("delivery_person_id", k, "id") <=> PersonMsg(k) \in Range(report.out)
           /\ Range(report.out) \subseteq
                  {IdMsg(k) : k \in KeyValues("id")}
                      \cup {PersonMsg(k) : k \in KeyValues("delivery_person_id")}

\* one direction is violated and the other is not
C5_Witness ==
    /\ Called("validate_id")
    /\ report.out = <<[msg |-> "ID has multiple delivery_person_ids.", subject |-> Cell(1)]>>
    /\ Cardinality(KeyValues("delivery_person_id")) = 2

\* where the message of validate_delivery_person_rating holds an "Invalid
\* rating" issue: <<line, position in the line>>
InvalidListed ==
    UNION {{<<i, n>> : n \in {m \in 1..Len(report.out.lines[i].issues) :
                                 report.out.lines[i].issues[m].msg = "Invalid rating"}} :
              i \in 1..Len(report.out.lines)}

\* C10: validate_delivery_person_rating flags a rating as invalid exactly when it
\* is below 1 or above 5: every row with such a rating is listed once, under
\* its delivery_person_id, and no rating inside [1, 5] is listed.
C10_RatingBoundsInclusive ==
    Called("validate_delivery_person_rating") =>
        LET lines == report.out.lines
            outside == {j \in 1..Len(data) :
                           /\ data[j]["delivery_person_rating"] # NA
                           /\ Val(data[j]["delivery_person_rating"]) \notin 1..5}
        IN /\ Cardinality(InvalidListed) = Cardinality(outside)
           /\ \A j \in outside :
                  \E p \in InvalidListed :
                      /\ lines[p[1]].key = data[j]["delivery_person_id"]
                      /\ lines[p[1]].issues[p[2]].detail = <<data[j]["delivery_person_rating"]>>
           /\ \A p \in InvalidListed :
                  LET c == lines[p[1]].issues[p[2]].detail[1]
                  IN c # NA /\ Val(c) \notin 1..5

\* ratings [0, 1, 5, 6, 3]: only 0 and 6 are flagged
C10_Witness ==
    /\ Called("validate_delivery_person_rating")
    /\ data = ExampleRatings
    /\ {report.out.lines[p[1]].issues[p[2]].detail[1] : p \in InvalidListed}
           = {Cell(0), Cell(6)}

----------------------------------------------------------------------------
(* C6, C7: missing columns, under SpecSchema *)

\* C6: a validator called on a DataFrame that lacks a column it requires raises
\* ValueError and returns no report, partial or otherwise; it raises
\* ValueError for no other DataFrame.  (A row has no cell for an absent column,
\* so a validator that read the rows before its test would have no value to
\* read.)
C6_SchemaErrorFailsFast ==
    report.rule # "none" =>
        /\ ~(Required(report.rule) \subseteq columns) =>
               report.raised = "ValueError" /\ report.out = <<>>
        /\ Required(report.rule) \subseteq columns => report.raised # "ValueError"

C6_Witness ==
    /\ report.rule = "validate_delivery_person_id"
    /\ report.raised = "ValueError"
    /\ "id" \in columns
    /\ Len(data) = 2

\* C7: a call that ends in a schema error changes neither the DataFrame nor
\* what any other rule returns on it, and every other rule whose required
\* columns are present completes.  (The two coordinate validators do not:
\* see C15.)
C7_SchemaErrorIsolated ==
    [][report'.raised = "ValueError" =>
           /\ data' = data
           /\ columns' = columns
           /\ \A q \in Rules \ {report'.rule} :
                  /\ Outcome(q, columns', data', now') = Outcome(q, columns, data, now)
                  /\ Required(q) \subseteq columns' =>
                         Outcome(q, columns', data', now').raised = "none"]_vars

----------------------------------------------------------------------------
(* C8, C9: repeated calls on one DataFrame, under Spec *)

\* C8: the same validator called twice in succession, the caller changing
\* nothing in between, returns the same report both times.  (Stated for two
\* calls between which the clock reading did not change either.)
C8_SameReportTwice ==
    [][(report.rule = report'.rule /\ now' = now) =>
           (report'.raised = report.raised /\ report'.out = report.out)]_vars

\* C9: no call changes a cell of the DataFrame it is given.
C9_DataReadOnly == [][data' = data]_vars

----------------------------------------------------------------------------
(* C11 - C13, C15, C17: the set-membership, coordinate and delivery-time    *)
(* checks, under SpecDomain                                                 *)

SetRules ==
    {"validate_weather_condition", "validate_road_traffic_density",
     "validate_vehicle_condition", "validate_type_of_order", "validate_type_of_vehicle",
     "validate_festival", "validate_city"}

\* the column a set-membership validator reads
Field(rule) == CHOOSE c \in Required(rule) : TRUE

\* the values the validator accepts
Allowed(rule) ==
    CASE rule = "validate_weather_condition" -> expected_weather_conditions
      [] rule = "validate_road_traffic_density" -> expected_densities
      [] rule = "validate_vehicle_condition" -> DOMAIN expected_vehicle_conditions
      [] rule = "validate_type_of_order" -> expected_orders
      [] rule = "validate_type_of_vehicle" -> expected_vehicles
      [] rule = "validate_festival" -> expected_festivals
      [] rule = "validate_city" -> expected_cities

MissingKey(rule) ==
    CASE rule = "validate_weather_condition" -> "missing_weather_conditions"
      [] rule = "validate_road_traffic_density" -> "missing_road_traffic_density"
      [] rule = "validate_vehicle_condition" -> "missing_vehicle_conditions"
      [] rule = "validate_type_of_order" -> "missing_type_of_order"
      [] rule = "validate_type_of_vehicle" -> "missing_type_of_vehicle"
      [] rule = "validate_festival" -> "missing_festivals"
      [] rule = "validate_city" -> "missing_cities"

InvalidKey(rule) ==
    CASE rule = "validate_weather_condition" -> "invalid_weather_conditions"
      [] rule = "validate_road_traffic_density" -> "invalid_road_traffic_density"
      [] rule = "validate_vehicle_condition" -> "invalid_vehicle_conditions"
      [] rule = "validate_type_of_order" -> "invalid_type_of_order"
      [] rule = "validate_type_of_vehicle" -> "invalid_type_of_vehicle"
      [] rule = "validate_festival" -> "invalid_festivals"
      [] rule = "validate_city" -> "invalid_cities"

AllValid(rule) ==
    CASE rule = "validate_weather_condition" ->
             "All weather conditions are valid and consistent."
      [] rule = "validate_road_traffic_density" ->
             "All road traffic densities are valid and consistent."
      [] rule = "validate_vehicle_condition" ->
             "All vehicle conditions are valid and consistent."
      [] rule = "validate_type_of_order" -> "All type of orders are valid and consistent."
      [] rule = "validate_type_of_vehicle" ->
             "All type of vehicles are valid and consistent."
      [] rule = "validate_festival" -> "All festivals are valid and consistent."
      [] rule = "validate_city" -> "All cities are valid and consistent."

\* the cells of column col of the DataFrame
Cells(col) == {data[i][col] : i \in 1..Len(data)}

\* the entries of the returned message that stand under issue
Entries(issue) == {e \in Range(report.out.lines) : e.issue = issue}

\* C11: in the set-membership validators a missing value is reported under
\* the missing category only: the invalid count is the number of rows whose
\* value is present and outside the allowed set, the invalid list holds those
\* values and no missing value, and a column with no such row has no invalid
\* entry.
C11_MissingNotInvalid ==
    \A rule \in SetRules :
        Called(rule) =>
            LET col == Field(rule)
                outside == {i \in 1..Len(data) :
                               /\ data[i][col] # NA
                               /\ Val(data[i][col]) \notin Allowed(rule)}
                lacking == {i \in 1..Len(data) : data[i][col] = NA}
            IN /\ (lacking = {}) <=> (Entries(MissingKey(rule)) = {})
               /\ \A e \in Entries(MissingKey(rule)) : e.count = Cardinality(lacking)
               /\ (outside = {}) <=> (Entries(InvalidKey(rule)) = {})
               /\ \A e \in Entries(InvalidKey(rule)) :
                      /\ e.count = Cardinality(outside)
                      /\ Range(e.list) = {data[i][col] : i \in outside}

\* C12: a set-membership validator reports exactly the values that are not
\* members of the allowed set: no member is ever listed, every distinct
\* non-member value present in the column is listed, once, and the all-valid
\* message is returned exactly when every cell of the column holds a member.
C12_ExactlyNonMembers ==
    \A rule \in SetRules :
        Called(rule) =>
            LET col == Field(rule)
                present == {Val(c) : c \in Cells(col) \ {NA}}
                members == {Cell(v) : v \in Allowed(rule)}
            IN /\ Cardinality(Entries(InvalidKey(rule))) <= 1
               /\ (present \ Allowed(rule) # {}) => Entries(InvalidKey(rule)) # {}
               /\ \A e \in Entries(InvalidKey(rule)) :
                      /\ Range(e.list) \cap members = {}
                      /\ {Val(c) : c \in Range(e.list) \ {NA}} = present \ Allowed(rule)
                      /\ Len(e.list) = Cardinality(Range(e.list))
               /\ (report.out.header = AllValid(rule)) <=> (Cells(col) \subseteq members)

\* weather conditions [Sunny, Foggy, Cloudy]: one violation, for Foggy
C12_Witness ==
    /\ Called("validate_weather_condition")
    /\ [i \in 1..Len(data) |-> data[i]["weather_condition"]]
           = <<Cell("Sunny"), Cell("Foggy"), Cell("Cloudy")>>
    /\ report.out.lines =
           <<[issue |-> "invalid_weather_conditions", count |-> 1,
              list |-> <<Cell("Foggy")>>]>>

\* C13 as the specification words it: validate_city accepts exactly
\* Metropolitan, Urban and Semi-Urban.
C13_CityAllowedAsSpecified ==
    Called("validate_city") =>
        LET allowed == {"Metropolitan", "Urban", "Semi-Urban"}
            present == {Val(c) : c \in Cells("city") \ {NA}}
        IN /\ (Cells("city") \subseteq {Cell(v) : v \in allowed})
                  => report.out.header = "All cities are valid and consistent."
           /\ \A v \in present \ allowed :
                  \E e \in Entries("invalid_cities") : Cell(v) \in Range(e.list)

\* C13: validate_city accepts exactly the strings Metropolitian, Urban and
\* Semi-Urban: a column whose cells are all drawn from these three gets the
\* all-valid message, and every other string present, Metropolitan among them,
\* is listed as invalid.
C13_CityAllowedSet ==
    Called("validate_city") =>
        LET allowed == {"Metropolitian", "Urban", "Semi-Urban"}
            present == {Val(c) : c \in Cells("city") \ {NA}}
        IN /\ (Cells("city") \subseteq {Cell(v) : v \in allowed})
                  => report.out.header = "All cities are valid and consistent."
           /\ \A v \in present \ allowed :
                  \E e \in Entries("invalid_cities") : Cell(v) \in Range(e.list)

\* cities [Metropolitian, Metropolitan]: the second one is listed as invalid
C13_Witness ==
    /\ Called("validate_city")
    /\ [i \in 1..Len(data) |-> data[i]["city"]]
           = <<Cell("Metropolitian"), Cell("Metropolitan")>>
    /\ report.out.lines =
           <<[issue |-> "invalid_cities", count |-> 1, list |-> <<Cell("Metropolitan")>>]>>

\* the set of distinct (latitude, longitude) pairs the rows of id k hold
Pairs(id, k, lat, lon) ==
    {<<data[i][lat], data[i][lon]>> : i \in {j \in 1..Len(data) : data[j][id] = Cell(k)}}

\* the ids the returned dict gives an "Inconsistent coordinates" issue
InconsistentIds ==
    {report.out[i].key : i \in {j \in 1..Len(report.out) :
        \E n \in 1..Len(report.out[j].issues) :
            report.out[j].issues[n].msg = "Inconsistent coordinates"}}

\* C15: validate_restaurant_coordinate and validate_delivery_location_coordinate
\* return a result for every DataFrame that has their columns, and the result
\* gives an id an "Inconsistent coordinates" issue exactly when the rows of the
\* id hold more than one distinct (latitude, longitude) pair.
C15_CoordinatesCompared ==
    /\ (report.rule = "validate_restaurant_coordinate"
            /\ Required(report.rule) \subseteq columns) =>
           /\ report.raised = "none"
           /\ \A k \in KeyValues("restaurant_id") :
                  Cell(k) \in InconsistentIds <=>
                      Cardinality(Pairs("restaurant_id", k, "restaurant_latitude",
                                        "restaurant_longitude")) > 1
    /\ (report.rule = "validate_delivery_location_coordinate"
            /\ Required(report.rule) \subseteq columns) =>
           /\ report.raised = "none"
           /\ \A k \in KeyValues("delivery_location_id") :
                  Cell(k) \in InconsistentIds <=>
                      Cardinality(Pairs("delivery_location_id", k,
                                        "delivery_location_latitude",
                                        "delivery_location_longitude")) > 1

\* C17: validate_delivery_time reports "Negative delivery times found."
\* exactly when some delivery_time is below 0 and "Delivery times exceeding
\* 120 minutes found." exactly when some delivery_time is above 120, and
\* nothing else; delivery times all within 0..120 give the empty list.
C17_DeliveryTimeBoundsInclusive ==
    Called("validate_delivery_time") =>
        LET times == {Val(c) : c \in Cells("delivery_time") \ {NA}}
            negative == "Negative delivery times found."
            high == "Delivery times exceeding 120 minutes found."
        IN /\ (negative \in Range(report.out)) <=> (\E t \in times : t < 0)
           /\ (high \in Range(report.out)) <=> (\E t \in times : t > 120)
           /\ Range(report.out) \subseteq {negative, high}
           /\ Len(report.out) = Cardinality(Range(report.out))
           /\ (times \subseteq 0..120) => report.out = <<>>

\* delivery times [0, 120]: both bounds are accepted
C17_Witness ==
    /\ Called("validate_delivery_time")
    /\ [i \in 1..Len(data) |-> data[i]["delivery_time"]] = <<Cell(0), Cell(120)>>
    /\ report.out = <<>>

----------------------------------------------------------------------------
(* C14, C20: the time and date checks, under SpecOrder *)

\* the (time_ordered, time_order_picked) pair of row i
TimePair(i) == <<data[i]["time_ordered"], data[i]["time_order_picked"]>>

\* row i is listed under issue in the message of validate_order_time
Flagged(issue, i) == \E e \in Entries(issue) : TimePair(i) \in Range(e.list)

\* both times of row i parse and time_order_picked is the earlier one
PickedEarlier(i) ==
    /\ data[i]["time_ordered"].kind = "str"
    /\ data[i]["time_order_picked"].kind = "str"
    /\ data[i]["time_order_picked"].t < data[i]["time_ordered"].t

\* C14 as the specification words it: a row is in invalid_times exactly when
\* one of its two times fails to parse, a missing time counting as one that
\* fails; it is in inconsistent_times exactly when both parse and
\* time_order_picked is earlier; no row is in both, and a row with an
\* unparseable or missing time is in one of the two.
C14_TimeRowsAsSpecified ==
    Called("validate_order_time") =>
        \A i \in 1..Len(data) :
            LET unparseable ==
                    \E c \in {"time_ordered", "time_order_picked"} :
                        data[i][c].kind \in {"badstr", "null"}
            IN /\ Flagged("invalid_times", i) <=> unparseable
               /\ Flagged("inconsistent_times", i) <=> PickedEarlier(i)
               /\ ~(Flagged("invalid_times", i) /\ Flagged("inconsistent_times", i))
               /\ unparseable =>
                      (Flagged("invalid_times", i) \/ Flagged("inconsistent_times", i))

\* C14: a row is in invalid_times exactly when one of its two times is a
\* string that fails to parse, and in inconsistent_times exactly when both
\* parse and time_order_picked is earlier; no row is in both and the two
\* counts are the numbers of such rows.  A missing time is not a parse
\* failure: a row with a missing time and no unparseable string is in neither
\* list and is counted under missing_time_ordered or missing_time_order_picked.
C14_TimeRowsClassified ==
    Called("validate_order_time") =>
        LET bad(i) == \E c \in {"time_ordered", "time_order_picked"} :
                          data[i][c].kind = "badstr"
            lacks(i, c) == data[i][c].kind = "null"
            Counted(issue, S) ==
                /\ (S = {}) <=> (Entries(issue) = {})
                /\ \A e \in Entries(issue) : e.count = Cardinality(S)
        IN /\ \A i \in 1..Len(data) :
                  /\ Flagged("invalid_times", i) <=> bad(i)
                  /\ Flagged("inconsistent_times", i) <=> PickedEarlier(i)
                  /\ ~(Flagged("invalid_times", i) /\ Flagged("inconsistent_times", i))
           /\ Counted("invalid_times", {i \in 1..Len(data) : bad(i)})
           /\ Counted("inconsistent_times", {i \in 1..Len(data) : PickedEarlier(i)})
           /\ Counted("missing_time_ordered",
                      {i \in 1..Len(data) : lacks(i, "time_ordered")})
           /\ Counted("missing_time_order_picked",
                      {i \in 1..Len(data) : lacks(i, "time_order_picked")})

\* one row lacks time_ordered and is in neither list, the other holds a
\* string that does not parse and is the one invalid row
C14_Witness ==
    /\ Called("validate_order_time")
    /\ Len(data) = 2
    /\ TimePair(1) = <<NoTime, TimeStr(1)>>
    /\ TimePair(2) = <<TimeStr(1), BadTimeStr>>
    /\ report.out.lines =
           <<[issue |-> "missing_time_ordered", count |-> 1, list |-> <<>>],
             [issue |-> "invalid_times", count |-> 1, list |-> <<TimePair(2)>>]>>

\* C20: validate_order_date reports 'invalid_dates' exactly when some
\* order_date that is not missing fails to parse as a date; a DataFrame whose
\* only defect is missing dates gets 'missing_dates' and no 'invalid_dates'.
\* (The rows are those the call was given, the report the one it returned.)
C20_MissingDatesNotInvalid ==
    [][(report'.rule = "validate_order_date" /\ report'.raised = "none") =>
           ((\E i \in 1..Len(report'.out.lines) :
                 report'.out.lines[i].issue = "invalid_dates")
            <=> (\E i \in 1..Len(data) : data[i]["order_date"].kind = "badstr"))]_vars

----------------------------------------------------------------------------
(* C16: the order of the report, under SpecFD *)

\* the issues of the message of validate_delivery_person_rating in the order
\* of the text: <<line, position in the line>>
Issues ==
    UNION {{<<i, n>> : n \in 1..Len(report.out.lines[i].issues)} :
              i \in 1..Len(report.out.lines)}

IssueMsg(p) == report.out.lines[p[1]].issues[p[2]].msg

Before(p, q) == p[1] < q[1] \/ (p[1] = q[1] /\ p[2] < q[2])

\* validate_id: every id-to-person message precedes every person-to-id message
IdOrder ==
    Called("validate_id") =>
        \A i, j \in 1..Len(report.out) :
            (report.out[i].msg = "ID has multiple delivery_person_ids."
                 /\ report.out[j].msg = "Delivery Person ID has multiple ids.") => i < j

\* C16 as the specification words it: in the report of validate_id every
\* id-to-person violation precedes every person-to-id violation, and in the
\* message of validate_delivery_person_rating every range violation precedes
\* every consistency violation.
C16_RuleOrderAsSpecified ==
    /\ IdOrder
    /\ Called("validate_delivery_person_rating") =>
           \A p, q \in Issues :
               (IssueMsg(p) = "Invalid rating" /\ IssueMsg(q) = "Inconsistent ratings")
                   => Before(p, q)

\* C16: in the report of validate_id every id-to-person violation precedes
\* every person-to-id violation.  The message of
\* validate_delivery_person_rating is grouped by delivery_person_id: inside
\* the entry of one id its range violations precede its consistency violation,
\* and every entry that holds a range violation precedes every entry that
\* holds none.
C16_RuleOrderWithinEntry ==
    /\ IdOrder
    /\ Called("validate_delivery_person_rating") =>
           /\ \A p, q \in Issues :
                  (p[1] = q[1] /\ IssueMsg(p) = "Invalid rating"
                       /\ IssueMsg(q) = "Inconsistent ratings") => Before(p, q)
           /\ \A i, j \in 1..Len(report.out.lines) :
                  ((\E p \in Issues : p[1] = i /\ IssueMsg(p) = "Invalid rating")
                       /\ ~(\E p \in Issues : p[1] = j /\ IssueMsg(p) = "Invalid rating"))
                      => i < j

\* ratings 0 and 1 for person 1, then 6 for person 2: the consistency
\* violation of person 1 stands before the range violation of person 2
C16_Witness ==
    /\ Called("validate_delivery_person_rating")
    /\ Len(report.out.lines) = 2
    /\ report.out.lines[1] =
           [key |-> Cell(1),
            issues |-> <<[msg |-> "Invalid rating", detail |-> <<Cell(0)>>],
                         [msg |-> "Inconsistent ratings",
                          detail |-> <<Cell(0), Cell(1)>>]>>]
    /\ report.out.lines[2] =
           [key |-> Cell(2),
            issues |-> <<[msg |-> "Invalid rating", detail |-> <<Cell(6)>>]>>]

----------------------------------------------------------------------------
(* C18, C19: cleaning and loading, under SpecPrepare *)

\* C18: clean_missing_values called with a fill_value and no method returns
\* the Series with every missing entry replaced by the fill_value and every
\* other entry unchanged.
C18_FillValueUsed ==
    (Called("clean_missing_values") /\ report.out.method = "omitted"
         /\ report.out.fill_value # NA) =>
        /\ Len(report.out.data) = Len(data)
        /\ \A i \in 1..Len(data) :
               LET c == data[i]["delivery_person_age"]
               IN report.out.data[i] =
                      IF c = NA THEN <<[num |-> Val(report.out.fill_value), den |-> 1]>>
                      ELSE <<[num |-> Val(c), den |-> 1]>>

\* C19: load_data raises nothing: it returns the table of the file when the
\* file can be read and None when reading it fails, and None in no other
\* case.
C19_LoadNeverRaises ==
    report.rule = "load_data" =>
        /\ report.raised = "none"
        /\ report.out.file.kind = "csv" =>
               report.out.returned = [none |-> FALSE, table |-> report.out.file.table]
        /\ report.out.file.kind # "csv" => report.out.returned.none

\* the path names no file: None is returned
C19_Witness ==
    /\ report.rule = "load_data"
    /\ report.raised = "none"
    /\ report.out.file.kind = "absent"
    /\ report.out.returned.none
    /\ Len(data) = MaxRows

----------------------------------------------------------------------------
(* C21: the message of validate_delivery_person_rating, under SpecFD *)

\* the rows of delivery_person_id k whose rating is below 1 or above 5
OutsideRows(k) ==
    {j \in 1..Len(data) :
        /\ data[j]["delivery_person_id"] = Cell(k)
        /\ data[j]["delivery_person_rating"] # NA
        /\ Val(data[j]["delivery_person_rating"]) \notin 1..5}

\* C21: in the message of validate_delivery_person_rating each
\* delivery_person_id has at most one entry; the entry carries one 'Invalid
\* rating' issue for each of its rows with a rating outside [1, 5], then one
\* 'Inconsistent ratings' issue if its rows hold more than one distinct
\* rating, and an id with neither has no entry.  The all-valid message is
\* returned exactly when no rating is outside [1, 5] and no
\* delivery_person_id has more than one distinct rating.
C21_OneEntryPerPerson ==
    Called("validate_delivery_person_rating") =>
        LET lines == report.out.lines
            Of(k) == {i \in 1..Len(lines) : lines[i].key = Cell(k)}
            Positions(i, msg) ==
                {n \in 1..Len(lines[i].issues) : lines[i].issues[n].msg = msg}
            Many(k) ==
                Cardinality(DepValues("delivery_person_id", Cell(k),
                                      "delivery_person_rating")) > 1
        IN /\ \A k \in KeyValues("delivery_person_id") :
                  /\ Cardinality(Of(k)) <= 1
                  /\ (Of(k) = {}) <=> (OutsideRows(k) = {} /\ ~Many(k))
                  /\ \A i \in Of(k) :
                         /\ Cardinality(Positions(i, "Invalid rating"))
                                = Cardinality(OutsideRows(k))
                         /\ Cardinality(Positions(i, "Inconsistent ratings"))
                                = IF Many(k) THEN 1 ELSE 0
                         /\ \A n \in Positions(i, "Invalid rating"),
                               m \in Positions(i, "Inconsistent ratings") : n < m
           /\ (report.out.header
                   = "All delivery_person_ids have valid and consistent ratings.")
                  <=> /\ \A j \in 1..Len(data) :
                             \/ data[j]["delivery_person_rating"] = NA
                             \/ Val(data[j]["delivery_person_rating"]) \in 1..5
                      /\ \A k \in KeyValues("delivery_person_id") : ~Many(k)

\* ratings 0, 6 and 1, all of person 1: one entry, two range issues and then
\* the consistency issue
C21_Witness ==
    /\ Called("validate_delivery_person_rating")
    /\ report.out.lines =
           <<[key |-> Cell(1),
              issues |-> <<[msg |-> "Invalid rating", detail |-> <<Cell(0)>>],
                           [msg |-> "Invalid rating", detail |-> <<Cell(6)>>],
                           [msg |-> "Inconsistent ratings",
                            detail |-> <<Cell(0), Cell(6), Cell(1)>>]>>]>>

----------------------------------------------------------------------------
(* C22: the dtype test of validate_order_date, under SpecOrder *)

\* C22: validate_order_date never reports 'format_error', whatever the
\* order_date column holds.
C22_NoFormatError ==
    Called("validate_order_date") => Entries("format_error") = {}

\* a column of two strings that are no dates: both are coerced to NaT and
\* listed as invalid, and the dtype test finds nothing
C22_Witness ==
    /\ Called("validate_order_date")
    /\ Len(data) = 2
    /\ report.out.lines = <<[issue |-> "invalid_dates", count |-> 2, list |-> <<NaT, NaT>>]>>

====
